---- MODULE Spec2Model ----
(***************************************************************************)
(* waitlist-pow-solver: the proof-of-work solver (solveChallenge) and the  *)
(* orchestrator (solveAndSubmit) of solver.ts, whose text is carried in    *)
(* src/README.md, lines 241-444.                                           *)
(*                                                                         *)
(* JavaScript strings are sequences of string fragments; the strings the   *)
(* solver hashes are sequences of one-character fragments.                 *)
(***************************************************************************)
EXTENDS Integers, Sequences, FiniteSets, TLC

(***************************************************************************)
(* Bounds of the model.                                                    *)
(***************************************************************************)
\* Largest attempt bound passed to a direct call of solveChallenge.
MaxBound == 12
\* Largest difficulty passed to a direct call of solveChallenge.
MaxDifficulty == 4
\* Stand-in for the default attempt bound (10_000_000 in the source),
\* scaled down so that the search of an attempt can be exhausted.
DefaultMaxIterations == 3
\* Last instant of the wall clock.
MaxTime == 3
\* Largest timeout an attempt is started with.
MaxTimeout == 2

(***************************************************************************)
(* JavaScript values that may be absent.                                   *)
(***************************************************************************)
Undefined == [undefined |-> TRUE]
Null == [null |-> TRUE]
Str(s) == [str |-> s]
Num(n) == [num |-> n]
Bool(b) == [bool |-> b]

\* No value yet (a variable of the model that has not been assigned).
None == [none |-> TRUE]

\* a ?? b
Nullish(a, b) == IF a = Undefined \/ a = Null THEN b ELSE a

\* A parameter default: `maxIterations = 10_000_000`, `timeout = 5000`.
ParamDefault(v, d) == IF v = Undefined THEN d ELSE v

(***************************************************************************)
(* Strings and the digest.                                                 *)
(***************************************************************************)
HexChars == <<"0", "1", "2", "3", "4", "5", "6", "7",
              "8", "9", "a", "b", "c", "d", "e", "f">>

\* UTF-8 code of the characters that occur in tokens and nonces.
CharCode(c) ==
    CASE c = "0" -> 48 [] c = "1" -> 49 [] c = "2" -> 50 [] c = "3" -> 51
      [] c = "4" -> 52 [] c = "5" -> 53 [] c = "6" -> 54 [] c = "7" -> 55
      [] c = "8" -> 56 [] c = "9" -> 57 [] c = "a" -> 97 [] c = "b" -> 98
      [] c = "c" -> 99 [] c = "d" -> 100 [] c = "e" -> 101 [] c = "f" -> 102

\* Number of hex characters of a digest (64 for SHA-256).
HashLen == 4

\* The digest's state space and its mixing step.  The library's SHA-256 is
\* replaced by a small deterministic digest of the same shape: a function
\* of the bytes of the input, giving HashLen lowercase hex characters.
HashModulus == 1048576
HashFactor == 1597
HashSeed == 7
HashShift == 1024

HashMix(h) ==
    LET m == (h * HashFactor + 1) % HashModulus
    IN  (m + (m \div HashShift)) % HashModulus

RECURSIVE HashFold(_, _)
HashFold(h, s) ==
    IF s = <<>> THEN h
    ELSE HashFold(HashMix(HashMix((h + CharCode(Head(s))) % HashModulus)), Tail(s))

\* One hex character from five bits of the digest state; a zero character
\* is as likely as all the others together, so that zero prefixes of every
\* length up to HashLen occur among the first nonces.
HexDigit(k) == IF k < 16 THEN "0" ELSE HexChars[k - 15]

RECURSIVE Pow32(_)
Pow32(n) == IF n = 0 THEN 1 ELSE 32 * Pow32(n - 1)

\* sha256(input): the lowercase hex digest of the string.
sha256(input) ==
    LET h == HashFold(HashSeed, input)
    IN  [i \in 1..HashLen |-> HexDigit((h \div Pow32(HashLen - i)) % 32)]

\* String(n), `${n}`: the decimal digits of a non-negative integer.
RECURSIVE String(_)
String(n) ==
    IF n < 10 THEN <<HexChars[n + 1]>>
    ELSE String(n \div 10) \o <<HexChars[(n % 10) + 1]>>

\* '0'.repeat(count), for count >= 0.
RECURSIVE Repeat0(_)
Repeat0(count) == IF count <= 0 THEN <<>> ELSE <<"0">> \o Repeat0(count - 1)

\* s.startsWith(prefix)
startsWith(s, prefix) ==
    /\ Len(prefix) <= Len(s)
    /\ SubSeq(s, 1, Len(prefix)) = prefix

(***************************************************************************)
(* Thrown values.                                                          *)
(***************************************************************************)
\* new Error(message)
Error(message) == [message |-> message]

\* err instanceof Error
InstanceOfError(err) == "message" \in DOMAIN err

\* '0'.repeat(count) throws a RangeError for a negative count.
RangeError(count) == Error(<<"Invalid count value: ", ToString(count)>>)

\* The error solveChallenge throws once the attempts are used up.
ExhaustedError(maxIterations, difficulty) ==
    Error(<<"solveChallenge: no solution found within ", ToString(maxIterations),
            " iterations (difficulty ", ToString(difficulty), ")">>)

(***************************************************************************)
(* solveChallenge: the pieces of the loop.                                 *)
(***************************************************************************)
\* The first candidate of the loop.
FirstNonce == 0

\* A variant of NextNonce that skips every other candidate.
NextNonceSkips(nonce) == nonce + 2

\* The candidate after `nonce` (nonce++).
NextNonce(nonce) == nonce + 1

\* A variant of LoopTest that does not look at the bound.
LoopTestUnbounded(nonce, maxIterations) == nonce >= 0

\* A variant of LoopTest that allows one attempt more than the bound.
LoopTestInclusive(nonce, maxIterations) == nonce <= maxIterations

\* The loop's condition.
LoopTest(nonce, maxIterations) == nonce < maxIterations

\* A variant of Candidate that puts the nonce before the token.
CandidateNonceFirst(challenge, nonce) == String(nonce) \o challenge

\* The string that is hashed for a candidate.
Candidate(challenge, nonce) == challenge \o String(nonce)

\* A variant of Accepts that takes an empty prefix for no match.
AcceptsNonEmpty(hash, prefix) == prefix # <<>> /\ startsWith(hash, prefix)

\* Whether a digest is accepted.
Accepts(hash, prefix) == startsWith(hash, prefix)

\* The value returned for an accepted candidate.
Solution(nonce, hash) == [nonce |-> String(nonce), hash |-> hash]

\* One pass of the loop: the test, the body and the increment, or the throw
\* that follows the loop.
LoopStep(challenge, difficulty, maxIterations, nonce) ==
    IF LoopTest(nonce, maxIterations)
    THEN LET hash == sha256(Candidate(challenge, nonce))
         IN  IF Accepts(hash, Repeat0(difficulty))
             THEN [kind |-> "return", value |-> Solution(nonce, hash)]
             ELSE [kind |-> "next", nonce |-> NextNonce(nonce)]
    ELSE [kind |-> "throw", error |-> ExhaustedError(maxIterations, difficulty)]

\* Entering the function: the prefix is built before the loop starts.
SolveEnter(difficulty) ==
    IF difficulty < 0
    THEN [kind |-> "throw", error |-> RangeError(difficulty)]
    ELSE [kind |-> "next", nonce |-> FirstNonce]

\* solveChallenge as a function of its arguments: the loop run to its end.
RECURSIVE SolveFrom(_, _, _, _)
SolveFrom(challenge, difficulty, maxIterations, nonce) ==
    LET step == LoopStep(challenge, difficulty, maxIterations, nonce)
    IN  IF step.kind = "next"
        THEN SolveFrom(challenge, difficulty, maxIterations, step.nonce)
        ELSE step

solveChallenge(challenge, difficulty, maxIterations) ==
    LET enter == SolveEnter(difficulty)
    IN  IF enter.kind = "throw" THEN enter
        ELSE SolveFrom(challenge, difficulty,
                       ParamDefault(maxIterations, DefaultMaxIterations), enter.nonce)

(***************************************************************************)
(* State.                                                                  *)
(***************************************************************************)
VARIABLES
    \* a direct call of solveChallenge
    sArgs,      \* the arguments of the call
    sPc,        \* "ready", "loop", "returned" or "thrown"
    sNonce,     \* the loop's counter
    sOut,       \* the value returned or the error thrown
    sChecked,   \* the candidates hashed so far, in order
    sPrev,      \* the outcome of the previous call with the same arguments
    \* the invocations of solveAndSubmit
    callers,    \* the invocations that are made
    att,        \* the state of each invocation
    now         \* the wall clock

solverVars == <<sArgs, sPc, sNonce, sOut, sChecked, sPrev>>

attemptVars == <<callers, att, now>>

vars == <<solverVars, attemptVars>>

(***************************************************************************)
(* solveAndSubmit: the state of one invocation.                            *)
(***************************************************************************)
Attempts == {1, 2}

\* The endpoint every invocation is given.
Url == "https://example.com"

\* Stand-in for the default timeout (5000 ms in the source).
DefaultTimeout == 2

\* Largest difficulty the server hands out.
MaxFetchedDifficulty == 3

\* Before the call.  The fields of the source keep their names; startedAt,
\* timeout, answer, fault, abortedAt and lateSolve record what happened and
\* are read by no step.
Idle ==
    [pc            |-> "idle",    \* where the invocation is suspended
     email         |-> None,      \* options.email
     controller    |-> 0,         \* the AbortController of the invocation
     aborted       |-> FALSE,     \* controller.signal.aborted
     timer         |-> "unset",   \* "unset", "armed", "fired" or "cleared"
     armed         |-> 0,         \* how many times setTimeout was called
     deadline      |-> 0,         \* the instant the timer is due
     requests      |-> <<>>,      \* the requests issued with fetch, in order
     challengeData |-> None,      \* the parsed body of the GET
     solves        |-> 0,         \* how many times solveChallenge was called
     nonce         |-> 0,         \* the loop counter of solveChallenge
     solved        |-> None,      \* { nonce, hash } once solveChallenge returned
     postStatus    |-> 0,         \* postRes.status of a response that is not ok
     result        |-> None,      \* the value the promise resolved with
     thrown        |-> None,      \* the value the promise rejected with
     startedAt     |-> 0,         \* the instant of the call
     timeout       |-> 0,         \* the timeout in force
     answer        |-> None,      \* the parsed body of the POST's response
     fault         |-> None,      \* the failure that ended the attempt
     abortedAt     |-> "never",   \* where the invocation was when the timer fired
     lateSolve     |-> FALSE]     \* the deadline passed while the solver ran

\* The invocation awaits the network.
NetworkStages == {"awaitGet", "awaitGetJson", "awaitPost", "awaitPostText", "awaitPostJson"}

\* res.ok
Ok(status) == 200 <= status /\ status <= 299

\* The error a request or a body read rejects with once its signal aborts.
AbortError == Error(<<"This operation was aborted">>)

\* What reading a property of null throws.
NullTypeError(property) ==
    Error(<<"Cannot read properties of null (reading '", property, "')">>)

\* What response.json() rejects with when the body is not JSON.
JsonSyntaxError == Error(<<"Unexpected token < in JSON at position 0">>)

\* JSON.stringify(object) of an object whose properties, in the order
\* `keys`, hold strings: the members in that order, a property that holds
\* undefined left out.
JSONStringify(keys, object) ==
    SelectSeq([i \in 1..Len(keys) |-> <<keys[i], object[keys[i]]>>],
              LAMBDA member : member[2] # Undefined)

\* A settled promise.
Resolved(value) == [kind |-> "resolve", value |-> value]
Rejected(err) == [kind |-> "reject", value |-> err]

(***************************************************************************)
(* solveAndSubmit: try, catch and finally.                                 *)
(***************************************************************************)
\* A variant of clearTimeout that leaves the timer as it is.
clearTimeoutForgotten(timer) == timer

\* clearTimeout(timer)
clearTimeout(timer) == IF timer = "armed" THEN "cleared" ELSE timer

\* finally { clearTimeout(timer) }
Finally(s) == [s EXCEPT !.timer = clearTimeout(@)]

\* `return value` inside the try block: the finally block runs and the
\* promise resolves with the value.
Return(s, value) == Finally([s EXCEPT !.pc = "done", !.result = value])

\* err instanceof Error ? err.message : String(err)
MessageOf(err) == IF InstanceOfError(err) THEN Str(err.message) ELSE err

\* A variant of Catch that lets the error through: the promise rejects.
CatchRethrows(s, err) == Finally([s EXCEPT !.pc = "rejected", !.thrown = err])

\* catch (err) { ... return { success: false, error: message } }
Catch(s, err) == Return(s, [success |-> FALSE, error |-> MessageOf(err)])

\* The failure an attempt ended with, for the record.
Fault(s, stage, cause) == [s EXCEPT !.fault = [stage |-> stage, cause |-> cause]]

\* A response that is not ok, for the record.
HttpFailure(method, status, text) == [method |-> method, status |-> status, text |-> text]

\* The server's refusal of a submission, for the record.
Refusal(body) == [refused |-> body.error]

\* The stage an invocation is in.
Stage(pc) ==
    CASE pc = "idle" -> "Idle"
      [] pc \in {"awaitGet", "awaitGetJson"} -> "Fetching"
      [] pc = "solving" -> "Solving"
      [] pc \in {"awaitPost", "awaitPostText", "awaitPostJson"} -> "Submitting"
      [] pc \in {"done", "rejected"} -> "Terminal"

\* What the network answered, for the record: a rejection, a status that
\* is not ok, or the server's refusal.
Note(s, outcome) ==
    CASE s.pc = "awaitPostText" ->
            Fault(s, "Submitting",
                  HttpFailure("POST", s.postStatus,
                              IF outcome.kind = "reject" THEN "" ELSE outcome.value))
      [] s.pc # "awaitPostText" /\ outcome.kind = "reject" ->
            Fault(s, Stage(s.pc), outcome.value)
      [] s.pc = "awaitGet" /\ outcome.kind = "resolve" ->
            IF Ok(outcome.value) THEN s
            ELSE Fault(s, "Fetching", HttpFailure("GET", outcome.value, ""))
      [] s.pc = "awaitPostJson" /\ outcome.kind = "resolve" ->
            IF outcome.value # Null /\ outcome.value.success = Bool(FALSE)
            THEN Fault([s EXCEPT !.answer = outcome.value], "Submitting",
                       Refusal(outcome.value))
            ELSE [s EXCEPT !.answer = outcome.value]
      [] OTHER -> s

(***************************************************************************)
(* solveAndSubmit: the code between two suspensions.                       *)
(***************************************************************************)
\* A variant of SignalOf that hands fetch no signal.
SignalOfNothing(s) == 0

\* The signal handed to fetch: that of the invocation's own controller.
SignalOf(s) == s.controller

\* fetch(url, init): the request is issued; a signal that is already
\* aborted rejects it at once.
Fetch(s, request, stage) ==
    LET t == [s EXCEPT !.requests = Append(@, request)]
    IN  IF request.signal # 0 /\ request.signal = s.controller /\ s.aborted
        THEN Catch(Fault(t, Stage(stage), AbortError), AbortError)
        ELSE [t EXCEPT !.pc = stage]

\* The signal that gates what the invocation awaits (0: none).
PendingSignal(s) ==
    IF s.pc \in NetworkStages /\ s.requests # <<>>
    THEN s.requests[Len(s.requests)].signal
    ELSE 0

\* A variant of NewAbortController in which every invocation is handed
\* one and the same controller.
SharedAbortController(a) == 1

\* new AbortController(): a controller of the invocation's own.
NewAbortController(a) == a

\* The call: the controller, the timer and the GET of fetchChallenge.
solveAndSubmit(a, email, timeout) ==
    LET s == [Idle EXCEPT
                !.email = email,
                !.controller = NewAbortController(a),
                !.timer = "armed",
                !.armed = @ + 1,
                !.deadline = now + ParamDefault(timeout, Num(DefaultTimeout)).num,
                !.startedAt = now,
                !.timeout = ParamDefault(timeout, Num(DefaultTimeout)).num]
    IN  Fetch(s, [method |-> "GET", url |-> Url, headers |-> <<>>,
                  body |-> Undefined, signal |-> SignalOf(s)], "awaitGet")

\* A variant of AfterGet that issues the GET once more when the request
\* cannot complete.
AfterGetRetries(s, outcome) ==
    IF outcome.kind = "reject"
    THEN Fetch([s EXCEPT !.fault = None],
               [method |-> "GET", url |-> Url, headers |-> <<>>,
                body |-> Undefined, signal |-> SignalOf(s)], "awaitGet")
    ELSE IF ~Ok(outcome.value)
         THEN Catch(s, Error(<<"GET ", Url, " responded with HTTP ",
                               ToString(outcome.value)>>))
         ELSE [s EXCEPT !.pc = "awaitGetJson"]

\* A variant of AfterGet that reads the body whatever the status.
AfterGetIgnoresStatus(s, outcome) ==
    IF outcome.kind = "reject"
    THEN Catch(s, outcome.value)
    ELSE [s EXCEPT !.pc = "awaitGetJson"]

\* fetchChallenge once fetch settled: the status is checked and the body
\* is read.
AfterGet(s, outcome) ==
    IF outcome.kind = "reject"
    THEN Catch(s, outcome.value)
    ELSE IF ~Ok(outcome.value)
         THEN Catch(s, Error(<<"GET ", Url, " responded with HTTP ",
                               ToString(outcome.value)>>))
         ELSE [s EXCEPT !.pc = "awaitGetJson"]

\* A variant of Submit that gives the POST a timeout of its own: a second
\* timer is armed when the request is issued.
SubmitRearms(s, solution) ==
    Fetch([s EXCEPT !.solved = solution,
                    !.timer = "armed",
                    !.armed = @ + 1,
                    !.deadline = now + s.timeout],
          [method |-> "POST", url |-> Url,
           headers |-> <<<<"Content-Type", "application/json">>>>,
           body |-> JSONStringify(<<"email", "nonce", "solution">>,
                                  [email |-> s.email,
                                   nonce |-> Str(solution.nonce),
                                   solution |-> Str(solution.hash)]),
           signal |-> SignalOf(s)],
          "awaitPost")

\* A variant of Submit that sends the digest as the nonce and the nonce as
\* the solution.
SubmitSwapped(s, solution) ==
    Fetch([s EXCEPT !.solved = solution],
          [method |-> "POST", url |-> Url,
           headers |-> <<<<"Content-Type", "application/json">>>>,
           body |-> JSONStringify(<<"email", "nonce", "solution">>,
                                  [email |-> s.email,
                                   nonce |-> Str(solution.hash),
                                   solution |-> Str(solution.nonce)]),
           signal |-> SignalOf(s)],
          "awaitPost")

\* The POST of step 3, issued once solveChallenge returned.
Submit(s, solution) ==
    Fetch([s EXCEPT !.solved = solution],
          [method |-> "POST", url |-> Url,
           headers |-> <<<<"Content-Type", "application/json">>>>,
           body |-> JSONStringify(<<"email", "nonce", "solution">>,
                                  [email |-> s.email,
                                   nonce |-> Str(solution.nonce),
                                   solution |-> Str(solution.hash)]),
           signal |-> SignalOf(s)],
          "awaitPost")

\* A variant of AfterGetJson that submits at once, without a search, when
\* the challenge says that no proof is required.
AfterGetJsonSkipsSolver(s, outcome) ==
    IF outcome.kind = "reject"
    THEN Catch(s, outcome.value)
    ELSE IF outcome.value = Null
         THEN Catch(Fault(s, "Fetching", NullTypeError("pow_required")),
                    NullTypeError("pow_required"))
         ELSE IF ~outcome.value.pow_required
              THEN Submit([s EXCEPT !.challengeData = outcome.value],
                          [nonce |-> <<>>, hash |-> <<>>])
              ELSE LET t == [s EXCEPT !.challengeData = outcome.value,
                                      !.solves = @ + 1]
                       enter == SolveEnter(outcome.value.difficulty)
                   IN  IF enter.kind = "throw"
                       THEN Catch(Fault(t, "Solving", enter.error), enter.error)
                       ELSE [t EXCEPT !.pc = "solving", !.nonce = enter.nonce]

\* After the body of the GET: the flag is read and solveChallenge is
\* entered with the fetched challenge and difficulty.
AfterGetJson(s, outcome) ==
    IF outcome.kind = "reject"
    THEN Catch(s, outcome.value)
    ELSE IF outcome.value = Null
         THEN Catch(Fault(s, "Fetching", NullTypeError("pow_required")),
                    NullTypeError("pow_required"))
         ELSE LET t == [s EXCEPT !.challengeData = outcome.value,
                                 !.solves = @ + 1]
                  enter == SolveEnter(outcome.value.difficulty)
              IN  IF enter.kind = "throw"
                  THEN Catch(Fault(t, "Solving", enter.error), enter.error)
                  ELSE [t EXCEPT !.pc = "solving", !.nonce = enter.nonce]

\* A variant of AfterSolveStep that runs the search again when its attempts
\* are used up.
AfterSolveStepSearchesAgain(s) ==
    LET step == LoopStep(s.challengeData.challenge, s.challengeData.difficulty,
                         ParamDefault(Undefined, DefaultMaxIterations), s.nonce)
        t == [s EXCEPT !.lateSolve = @ \/ (now >= s.deadline)]
    IN  CASE step.kind = "next" -> [t EXCEPT !.nonce = step.nonce]
          [] step.kind = "throw" -> [t EXCEPT !.nonce = FirstNonce, !.solves = @ + 1]
          [] step.kind = "return" -> Submit(t, step.value)

\* A variant of AfterSolveStep whose search gives up once the deadline has
\* passed.
AfterSolveStepAbortable(s) ==
    LET step == LoopStep(s.challengeData.challenge, s.challengeData.difficulty,
                         ParamDefault(Undefined, DefaultMaxIterations), s.nonce)
        t == [s EXCEPT !.lateSolve = @ \/ (now >= s.deadline)]
    IN  IF now >= s.deadline
        THEN Catch(Fault(t, "Solving", AbortError), AbortError)
        ELSE CASE step.kind = "next" -> [t EXCEPT !.nonce = step.nonce]
               [] step.kind = "throw" -> Catch(Fault(t, "Solving", step.error), step.error)
               [] step.kind = "return" -> Submit(t, step.value)

\* One pass of the loop of solveChallenge inside the invocation and, once
\* it returned, the POST.
AfterSolveStep(s) ==
    LET step == LoopStep(s.challengeData.challenge, s.challengeData.difficulty,
                         ParamDefault(Undefined, DefaultMaxIterations), s.nonce)
        t == [s EXCEPT !.lateSolve = @ \/ (now >= s.deadline)]
    IN  CASE step.kind = "next" -> [t EXCEPT !.nonce = step.nonce]
          [] step.kind = "throw" -> Catch(Fault(t, "Solving", step.error), step.error)
          [] step.kind = "return" -> Submit(t, step.value)

\* A variant of AfterPost that starts over with a fresh GET when the
\* POST cannot complete.
AfterPostRetries(s, outcome) ==
    IF outcome.kind = "reject"
    THEN Fetch([s EXCEPT !.fault = None],
               [method |-> "GET", url |-> Url, headers |-> <<>>,
                body |-> Undefined, signal |-> SignalOf(s)], "awaitGet")
    ELSE IF ~Ok(outcome.value)
         THEN [s EXCEPT !.pc = "awaitPostText", !.postStatus = outcome.value]
         ELSE [s EXCEPT !.pc = "awaitPostJson"]

\* After the POST settled: a response that is not ok has its text read.
AfterPost(s, outcome) ==
    IF outcome.kind = "reject"
    THEN Catch(s, outcome.value)
    ELSE IF ~Ok(outcome.value)
         THEN [s EXCEPT !.pc = "awaitPostText", !.postStatus = outcome.value]
         ELSE [s EXCEPT !.pc = "awaitPostJson"]

\* A variant of AfterPostText without the .catch: a text that cannot be
\* read is thrown.
AfterPostTextFatal(s, outcome) ==
    IF outcome.kind = "reject"
    THEN Catch(s, outcome.value)
    ELSE Return(s, [success |-> FALSE,
                    error |-> Str(<<"POST ", Url, " responded with HTTP ",
                                    ToString(s.postStatus), ": ", outcome.value>>)])

\* postRes.text().catch(() => '') and the failure that is returned.
AfterPostText(s, outcome) ==
    LET text == IF outcome.kind = "reject" THEN "" ELSE outcome.value
    IN  Return(s, [success |-> FALSE,
                   error |-> Str(<<"POST ", Url, " responded with HTTP ",
                                   ToString(s.postStatus), ": ", text>>)])

\* A variant of AfterPostJson that copies the error field of the body into
\* the success it returns.
AfterPostJsonEchoes(s, outcome) ==
    IF outcome.kind = "reject"
    THEN Catch(s, outcome.value)
    ELSE IF outcome.value = Null
         THEN Catch(Fault(s, "Submitting", NullTypeError("success")),
                    NullTypeError("success"))
         ELSE IF outcome.value.success = Bool(FALSE)
              THEN Return(s, [success |-> FALSE,
                              error |-> Nullish(outcome.value.error,
                                                Str(<<"Server returned success: false">>))])
              ELSE Return(s, [success |-> TRUE, position |-> outcome.value.position,
                              error |-> outcome.value.error])

\* A variant of AfterPostJson that never reads the error field of a
\* refusal.
AfterPostJsonGenericOnly(s, outcome) ==
    IF outcome.kind = "reject"
    THEN Catch(s, outcome.value)
    ELSE IF outcome.value = Null
         THEN Catch(Fault(s, "Submitting", NullTypeError("success")),
                    NullTypeError("success"))
         ELSE IF outcome.value.success = Bool(FALSE)
              THEN Return(s, [success |-> FALSE,
                              error |-> Str(<<"Server returned success: false">>)])
              ELSE Return(s, [success |-> TRUE, position |-> outcome.value.position])

\* A variant of AfterPostJson that takes for a success only a body that
\* says success: true.
AfterPostJsonRequiresTrue(s, outcome) ==
    IF outcome.kind = "reject"
    THEN Catch(s, outcome.value)
    ELSE IF outcome.value = Null
         THEN Catch(Fault(s, "Submitting", NullTypeError("success")),
                    NullTypeError("success"))
         ELSE IF outcome.value.success # Bool(TRUE)
              THEN Return(s, [success |-> FALSE,
                              error |-> Nullish(outcome.value.error,
                                                Str(<<"Server returned success: false">>))])
              ELSE Return(s, [success |-> TRUE, position |-> outcome.value.position])

\* After the body of the POST: the server's answer is interpreted.
AfterPostJson(s, outcome) ==
    IF outcome.kind = "reject"
    THEN Catch(s, outcome.value)
    ELSE IF outcome.value = Null
         THEN Catch(Fault(s, "Submitting", NullTypeError("success")),
                    NullTypeError("success"))
         ELSE IF outcome.value.success = Bool(FALSE)
              THEN Return(s, [success |-> FALSE,
                              error |-> Nullish(outcome.value.error,
                                                Str(<<"Server returned success: false">>))])
              ELSE Return(s, [success |-> TRUE, position |-> outcome.value.position])

\* What the invocation awaits settles as `outcome`.
Settle(s, outcome) ==
    CASE s.pc = "awaitGet" -> AfterGet(s, outcome)
      [] s.pc = "awaitGetJson" -> AfterGetJson(s, outcome)
      [] s.pc = "awaitPost" -> AfterPost(s, outcome)
      [] s.pc = "awaitPostText" -> AfterPostText(s, outcome)
      [] s.pc = "awaitPostJson" -> AfterPostJson(s, outcome)

\* The timer's callback: controller.abort().  What the invocation awaits
\* under the controller's signal rejects with the abort error.
OnTimeout(s) ==
    LET t == [s EXCEPT !.timer = "fired", !.aborted = TRUE, !.abortedAt = s.pc]
    IN  IF PendingSignal(t) # 0 /\ PendingSignal(t) = t.controller
        THEN Settle(Note(t, Rejected(AbortError)), Rejected(AbortError))
        ELSE t

\* What the abort of `controller` does to an invocation other than the one
\* whose timer fired: a call it awaits under that controller's signal
\* rejects with the abort error.
OnAbort(s, controller) ==
    IF PendingSignal(s) # 0 /\ PendingSignal(s) = controller
    THEN Settle(Note([s EXCEPT !.aborted = TRUE], Rejected(AbortError)),
                Rejected(AbortError))
    ELSE s

(***************************************************************************)
(* Direct calls of solveChallenge.                                         *)
(***************************************************************************)
Tokens == {<<"e", "f">>, <<"f">>, <<"d">>}

SolveArgs ==
    [challenge : Tokens, difficulty : 0..MaxDifficulty,
     maxIterations : {Num(n) : n \in 0..MaxBound} \cup {Undefined}]

\* The attempt bound in force in a call.
BoundOf(args) ==
    IF args.maxIterations = Undefined THEN DefaultMaxIterations
    ELSE args.maxIterations.num

SolverInit ==
    /\ sArgs \in SolveArgs
    /\ sPc = "ready"
    /\ sNonce = 0
    /\ sOut = None
    /\ sChecked = <<>>
    /\ sPrev = None
    /\ callers = {}
    /\ att = [a \in Attempts |-> Idle]
    /\ now = 0

\* A variant of SolverCall whose counter outlives the call: a later call
\* goes on after the candidate the earlier one stopped at.
SolverCallResumes ==
    /\ sPc = "ready"
    /\ LET enter == SolveEnter(sArgs.difficulty)
       IN  IF enter.kind = "throw"
           THEN /\ sPc' = "thrown"
                /\ sOut' = enter.error
                /\ sNonce' = sNonce
           ELSE /\ sPc' = "loop"
                /\ sNonce' = IF sPrev = None THEN enter.nonce ELSE NextNonce(sNonce)
                /\ sOut' = None
    /\ sChecked' = <<>>
    /\ UNCHANGED <<sArgs, sPrev, attemptVars>>

\* The call: the prefix is built and the loop is entered.
SolverCall ==
    /\ sPc = "ready"
    /\ LET enter == SolveEnter(sArgs.difficulty)
       IN  IF enter.kind = "throw"
           THEN /\ sPc' = "thrown"
                /\ sOut' = enter.error
                /\ sNonce' = sNonce
           ELSE /\ sPc' = "loop"
                /\ sNonce' = enter.nonce
                /\ sOut' = None
    /\ sChecked' = <<>>
    /\ UNCHANGED <<sArgs, sPrev, attemptVars>>

\* One pass of the loop of the call.
SolverIter ==
    /\ sPc = "loop"
    /\ LET step == LoopStep(sArgs.challenge, sArgs.difficulty, BoundOf(sArgs), sNonce)
       IN  /\ sChecked' = IF LoopTest(sNonce, BoundOf(sArgs))
                          THEN Append(sChecked, sNonce) ELSE sChecked
           /\ CASE step.kind = "return" ->
                     /\ sPc' = "returned"
                     /\ sOut' = step.value
                     /\ sNonce' = sNonce
                [] step.kind = "next" ->
                     /\ sPc' = "loop"
                     /\ sOut' = sOut
                     /\ sNonce' = step.nonce
                [] step.kind = "throw" ->
                     /\ sPc' = "thrown"
                     /\ sOut' = step.error
                     /\ sNonce' = sNonce
    /\ UNCHANGED <<sArgs, sPrev, attemptVars>>

\* The first call is over and the caller is about to call again with the
\* same arguments; what the first call left behind stays where it is.
SolverAgain ==
    /\ sPc \in {"returned", "thrown"}
    /\ sPrev = None
    /\ sPrev' = [pc |-> sPc, out |-> sOut]
    /\ sPc' = "ready"
    /\ sOut' = None
    /\ UNCHANGED <<sArgs, sNonce, sChecked, attemptVars>>

SolverNext == SolverCall \/ SolverIter \/ SolverAgain

SolverSpec == SolverInit /\ [][SolverNext]_vars

\* The call is synchronous: once made it runs, pass after pass, until it
\* returns or throws.
SolverFairSpec == SolverSpec /\ WF_vars(SolverCall) /\ WF_vars(SolverIter)

(***************************************************************************)
(* The invocations of solveAndSubmit, the network and the clock.           *)
(***************************************************************************)
Emails == {Str(<<"a@b.com">>), Str(<<"c@d.org">>)}

Timeouts == {Undefined} \cup {Num(t) : t \in 1..MaxTimeout}

\* What fetch rejects with when the request cannot complete.
TransportFailures == {Error(<<"Network error">>), Str(<<"socket hang up">>)}

Statuses == {200, 201, 400, 503}

\* The challenges the server hands out.
AttemptTokens == {<<"e", "f">>, <<"d">>}

ChallengeBodies ==
    [pow_required : BOOLEAN, challenge : AttemptTokens,
     difficulty : (0 - 1)..MaxFetchedDifficulty]

\* The bodies the server answers a submission with; a field that is
\* absent reads as undefined.
PostBodies ==
    [success : {Undefined, Null, Bool(TRUE), Bool(FALSE)},
     position : {Undefined, Num(7)},
     error : {Undefined, Null, Str(<<"duplicate email">>)}]

Texts == {"Bad Request"}

\* What an invocation meets.  The first invocation meets every case; the
\* second, made while the first is under way, meets a few of them.
Env(a) ==
    IF a = 1
    THEN [emails     |-> Emails,
          timeouts   |-> Timeouts,
          failures   |-> TransportFailures,
          statuses   |-> Statuses,
          challenges |-> ChallengeBodies \cup {Null},
          bodies     |-> PostBodies \cup {Null},
          texts      |-> Texts]
    ELSE [emails     |-> {Str(<<"c@d.org">>)},
          timeouts   |-> {Num(1)},
          failures   |-> {Error(<<"Network error">>)},
          statuses   |-> {200, 503},
          challenges |-> {[pow_required |-> TRUE, challenge |-> <<"e", "f">>,
                           difficulty |-> 1]},
          bodies     |-> {[success |-> Undefined, position |-> Num(7),
                           error |-> Undefined]},
          texts      |-> Texts]

\* No invocation is inside the synchronous search: the event loop is free
\* to run a callback or a continuation.
LoopFree == \A b \in Attempts : att[b].pc # "solving"

\* What the invocation awaits can still settle by itself: its signal has
\* not rejected it.
Open(s) == ~(PendingSignal(s) # 0 /\ PendingSignal(s) = s.controller /\ s.aborted)

Awaiting(a, pc) ==
    /\ att[a].pc = pc
    /\ LoopFree
    /\ Open(att[a])

Deliver(a, outcome) ==
    /\ att' = [att EXCEPT ![a] = Settle(Note(att[a], outcome), outcome)]
    /\ UNCHANGED <<callers, now, solverVars>>

Init ==
    /\ sArgs = None
    /\ sPc = "unused"
    /\ sNonce = 0
    /\ sOut = None
    /\ sChecked = <<>>
    /\ sPrev = None
    /\ callers = {1}
    /\ att = [a \in Attempts |-> Idle]
    /\ now = 0

\* solveAndSubmit(options) is called.
Call(a) ==
    /\ a \in callers
    /\ att[a].pc = "idle"
    /\ LoopFree
    /\ \E email \in Env(a).emails, timeout \in Env(a).timeouts :
          att' = [att EXCEPT ![a] = solveAndSubmit(a, email, timeout)]
    /\ UNCHANGED <<callers, now, solverVars>>

\* The GET cannot complete.
GetRejects(a) ==
    /\ Awaiting(a, "awaitGet")
    /\ \E err \in Env(a).failures : Deliver(a, Rejected(err))

\* The response of the GET arrives.
GetResponds(a) ==
    /\ Awaiting(a, "awaitGet")
    /\ \E status \in Env(a).statuses : Deliver(a, Resolved(status))

\* The body of the GET is not JSON.
GetBodyUnparsable(a) ==
    /\ Awaiting(a, "awaitGetJson")
    /\ Deliver(a, Rejected(JsonSyntaxError))

\* The body of the GET is parsed.
GetBodyParsed(a) ==
    /\ Awaiting(a, "awaitGetJson")
    /\ \E data \in Env(a).challenges : Deliver(a, Resolved(data))

\* One pass of the search; nothing else runs meanwhile but the clock.
SolveStep(a) ==
    /\ att[a].pc = "solving"
    /\ att' = [att EXCEPT ![a] = AfterSolveStep(att[a])]
    /\ UNCHANGED <<callers, now, solverVars>>

\* The POST cannot complete.
PostRejects(a) ==
    /\ Awaiting(a, "awaitPost")
    /\ \E err \in Env(a).failures : Deliver(a, Rejected(err))

\* The response of the POST arrives.
PostResponds(a) ==
    /\ Awaiting(a, "awaitPost")
    /\ \E status \in Env(a).statuses : Deliver(a, Resolved(status))

\* The text of a response that is not ok is read.
PostTextRead(a) ==
    /\ Awaiting(a, "awaitPostText")
    /\ \E text \in Env(a).texts : Deliver(a, Resolved(text))

\* The text of a response that is not ok cannot be read.
PostTextUnreadable(a) ==
    /\ Awaiting(a, "awaitPostText")
    /\ Deliver(a, Rejected(Error(<<"Body is unusable">>)))

\* The body of the POST is not JSON.
PostBodyUnparsable(a) ==
    /\ Awaiting(a, "awaitPostJson")
    /\ Deliver(a, Rejected(JsonSyntaxError))

\* The body of the POST is parsed.
PostBodyParsed(a) ==
    /\ Awaiting(a, "awaitPostJson")
    /\ \E body \in Env(a).bodies : Deliver(a, Resolved(body))

\* The timer is due and its callback runs.
TimerFires(a) ==
    /\ att[a].timer = "armed"
    /\ now >= att[a].deadline
    /\ LoopFree
    /\ att' = [b \in Attempts |->
                  IF b = a THEN OnTimeout(att[a])
                  ELSE OnAbort(att[b], att[a].controller)]
    /\ UNCHANGED <<callers, now, solverVars>>

\* Time passes while an invocation is under way.
Tick ==
    /\ now < MaxTime
    /\ \E a \in Attempts : att[a].pc \notin {"idle", "done", "rejected"}
    /\ now' = now + 1
    /\ UNCHANGED <<callers, att, solverVars>>

Next ==
    \/ Tick
    \/ \E a \in Attempts :
          \/ Call(a)
          \/ GetRejects(a)
          \/ GetResponds(a)
          \/ GetBodyUnparsable(a)
          \/ GetBodyParsed(a)
          \/ SolveStep(a)
          \/ PostRejects(a)
          \/ PostResponds(a)
          \/ PostTextRead(a)
          \/ PostTextUnreadable(a)
          \/ PostBodyUnparsable(a)
          \/ PostBodyParsed(a)
          \/ TimerFires(a)

Spec == Init /\ [][Next]_vars

\* Two invocations are made and run interleaved.
ConcurrentInit ==
    /\ sArgs = None
    /\ sPc = "unused"
    /\ sNonce = 0
    /\ sOut = None
    /\ sChecked = <<>>
    /\ sPrev = None
    /\ callers = Attempts
    /\ att = [a \in Attempts |-> Idle]
    /\ now = 0

ConcurrentSpec == ConcurrentInit /\ [][Next]_vars

(***************************************************************************)
(* What the claims speak of, stated without the loop.                      *)
(***************************************************************************)
\* The digest starts with at least d '0' characters.
ZeroPrefixed(hash, d) ==
    /\ Len(hash) >= d
    /\ \A i \in 1..d : hash[i] = "0"

\* The nonce n satisfies the prefix condition for (challenge, d).
SatisfiesAt(challenge, d, n) == ZeroPrefixed(sha256(challenge \o String(n)), d)

\* The number a decimal string denotes.
RECURSIVE DecimalValue(_)
DecimalValue(s) ==
    IF s = <<>> THEN 0
    ELSE 10 * DecimalValue(SubSeq(s, 1, Len(s) - 1))
         + (CHOOSE k \in 0..9 : HexChars[k + 1] = s[Len(s)])

\* The direct call is over.
SolverDone == sPc \in {"returned", "thrown"}

(***************************************************************************)
(* C1. Solver soundness: whenever solveChallenge returns (nonce, hash),    *)
(* hash is the digest of the token followed by the decimal nonce, and hash *)
(* starts with at least `difficulty` '0' characters.                       *)
(***************************************************************************)
C1_Soundness ==
    sPc = "returned" =>
        /\ sOut.hash = sha256(sArgs.challenge \o sOut.nonce)
        /\ ZeroPrefixed(sOut.hash, sArgs.difficulty)

\* A solution with a two-digit nonce for a difficulty of three.
C1_Witness ==
    /\ sPc = "returned"
    /\ sArgs.difficulty = 3
    /\ Len(sOut.nonce) = 2

(***************************************************************************)
(* C2. Lowest nonce wins: the candidates are examined in the order 0, 1,   *)
(* 2, ..., and no nonce smaller than the returned one satisfies the prefix *)
(* condition.                                                              *)
(***************************************************************************)
C2_LowestNonce ==
    /\ \A i \in 1..Len(sChecked) : sChecked[i] = i - 1
    /\ sPc = "returned" =>
          /\ sOut.nonce = String(DecimalValue(sOut.nonce))
          /\ sChecked[Len(sChecked)] = DecimalValue(sOut.nonce)
          /\ \A n \in 0..(DecimalValue(sOut.nonce) - 1) :
                ~SatisfiesAt(sArgs.challenge, sArgs.difficulty, n)

\* A returned nonce that is not the first candidate, with a later nonce
\* that would satisfy the condition too.
C2_Witness ==
    /\ sPc = "returned"
    /\ DecimalValue(sOut.nonce) >= 2
    /\ \E n \in (DecimalValue(sOut.nonce) + 1)..MaxBound :
          SatisfiesAt(sArgs.challenge, sArgs.difficulty, n)

(***************************************************************************)
(* C3. Exhaustion: the call fails with the exhausted error exactly when no *)
(* nonce n with 0 <= n < bound satisfies the prefix condition.             *)
(***************************************************************************)
C3_Exhaustion ==
    SolverDone =>
        ((sPc = "thrown" /\ sOut = ExhaustedError(BoundOf(sArgs), sArgs.difficulty))
            <=> \A n \in 0..(BoundOf(sArgs) - 1) :
                    ~SatisfiesAt(sArgs.challenge, sArgs.difficulty, n))

\* A bound below the minimal satisfying nonce: the error, although a nonce
\* at or above the bound satisfies the condition.
C3_Witness ==
    /\ sPc = "thrown"
    /\ BoundOf(sArgs) >= 2
    /\ \E n \in BoundOf(sArgs)..MaxBound :
          SatisfiesAt(sArgs.challenge, sArgs.difficulty, n)

(***************************************************************************)
(* What the claims about solveAndSubmit speak of.                          *)
(***************************************************************************)
\* The invocation is over.
Terminal(s) == s.pc \in {"done", "rejected"}

\* The invocation ended as Failed: { success: false, error: <message> }.
Failed(s) ==
    /\ s.pc = "done"
    /\ s.result.success = FALSE
    /\ DOMAIN s.result = {"success", "error"}
    /\ "str" \in DOMAIN s.result.error

\* The invocation ended as Succeeded.
Succeeded(s) == s.pc = "done" /\ s.result.success = TRUE

\* The message text of a failure: of a thrown error its message, of a
\* thrown string the string, of a response that is not ok the line that
\* names the request and the status, of a refusal the server's error or the
\* generic line.
FaultText(cause) ==
    IF "status" \in DOMAIN cause
    THEN IF cause.method = "GET"
         THEN Str(<<"GET ", Url, " responded with HTTP ", ToString(cause.status)>>)
         ELSE Str(<<"POST ", Url, " responded with HTTP ", ToString(cause.status),
                    ": ", cause.text>>)
    ELSE IF "refused" \in DOMAIN cause
         THEN IF cause.refused \in {Undefined, Null}
              THEN Str(<<"Server returned success: false">>)
              ELSE cause.refused
         ELSE IF "message" \in DOMAIN cause THEN Str(cause.message) ELSE cause

\* JSON.parse of the text of an object.
JSONParse(text) ==
    [k \in {text[i][1] : i \in DOMAIN text} |->
        text[CHOOSE i \in DOMAIN text : text[i][1] = k][2]]

\* The order of the stages.
StageRank(pc) ==
    CASE Stage(pc) = "Idle" -> 0
      [] Stage(pc) = "Fetching" -> 1
      [] Stage(pc) = "Solving" -> 2
      [] Stage(pc) = "Submitting" -> 3
      [] Stage(pc) = "Terminal" -> 4

\* What solveChallenge gives for the challenge an invocation fetched.
Expected(s) ==
    solveChallenge(s.challengeData.challenge, s.challengeData.difficulty, Undefined)

(***************************************************************************)
(* C4. No fault escapes the orchestrator: whatever fails, at whatever      *)
(* stage, the call completes with { success: false, error: <message> }     *)
(* whose error is the message text of the failure; the promise never       *)
(* rejects.                                                                *)
(***************************************************************************)
C4_NoFaultEscapes ==
    \A a \in Attempts :
        LET s == att[a]
        IN  /\ s.pc # "rejected"
            /\ s.thrown = None
            /\ s.fault # None =>
                  /\ Failed(s)
                  /\ s.result.error = FaultText(s.fault.cause)
            /\ (s.pc = "done" /\ s.fault = None) => Succeeded(s)

\* The search of the fetched challenge was exhausted and the call returned
\* the failure.
C4_Witness ==
    \E a \in Attempts :
        /\ att[a].pc = "done"
        /\ att[a].fault # None
        /\ att[a].fault.stage = "Solving"
        /\ att[a].challengeData.difficulty > 0
        /\ att[a].result.error =
              Str(ExhaustedError(DefaultMaxIterations,
                                 att[a].challengeData.difficulty).message)

(***************************************************************************)
(* C5. Stage ordering: an attempt moves only forward through Idle,         *)
(* Fetching, Solving, Submitting and one terminal stage; the POST is       *)
(* issued only after the GET's body parsed and the solver returned; once   *)
(* terminal, nothing of the attempt changes.                               *)
(***************************************************************************)
C5_StageOrder ==
    [][\A a \in Attempts :
          LET s == att[a]
              t == att'[a]
          IN  /\ StageRank(t.pc) >= StageRank(s.pc)
              /\ Stage(t.pc) = "Fetching" => Stage(s.pc) \in {"Idle", "Fetching"}
              /\ Stage(t.pc) = "Solving" => Stage(s.pc) \in {"Fetching", "Solving"}
              /\ Stage(t.pc) = "Submitting" => Stage(s.pc) \in {"Solving", "Submitting"}
              /\ Terminal(s) => t = s
              /\ Len(t.requests) > Len(s.requests) =>
                    /\ Len(t.requests) = Len(s.requests) + 1
                    /\ IF s.requests = <<>>
                       THEN /\ t.requests[1].method = "GET"
                            /\ Stage(s.pc) = "Idle"
                       ELSE /\ t.requests[Len(t.requests)].method = "POST"
                            /\ Stage(s.pc) = "Solving"
                            /\ s.challengeData \in ChallengeBodies
                            /\ t.solved # None
                            /\ Expected(s).kind = "return"]_vars

\* An attempt that went through every stage and then failed at the POST.
C5_Witness ==
    \E a \in Attempts :
        /\ att[a].pc = "done"
        /\ Len(att[a].requests) = 2
        /\ att[a].nonce > 0
        /\ att[a].result.success = FALSE

(***************************************************************************)
(* C6. Timeout cancellation: while the GET or the POST (or the reading of  *)
(* a body) is pending, the timer stays armed and the call is gated by the  *)
(* signal the timer aborts; when the timer fires then, the attempt ends    *)
(* with { success: false, error: <message> }; an attempt aborted so never  *)
(* ends as Succeeded.                                                      *)
(***************************************************************************)
C6_TimeoutCancels ==
    /\ [](\A a \in Attempts :
            LET s == att[a]
            IN  /\ s.pc \in NetworkStages =>
                      /\ s.timer = "armed"
                      /\ PendingSignal(s) = s.controller
                      /\ s.controller = a
                      /\ ~s.aborted
                /\ s.abortedAt \in NetworkStages => Failed(s))
    /\ [][\A a \in Attempts :
            (att[a].timer = "armed" /\ att'[a].timer = "fired"
                /\ att[a].pc \in NetworkStages)
              => /\ att'[a].aborted
                 /\ Failed(att'[a])]_vars

\* The timer fired while the POST was pending, and the attempt failed with
\* the abort's message.
C6_Witness ==
    \E a \in Attempts :
        /\ att[a].abortedAt = "awaitPost"
        /\ att[a].pc = "done"
        /\ att[a].result.error = Str(AbortError.message)

(***************************************************************************)
(* C7. Timer cleanup: in every terminal state the timer of the attempt is  *)
(* no longer armed and its callback can no longer run.                     *)
(***************************************************************************)
C7_TimerReleased ==
    \A a \in Attempts :
        Terminal(att[a]) =>
            /\ att[a].timer \in {"cleared", "fired"}
            /\ ~ENABLED TimerFires(a)

\* A successful attempt that ended after its deadline had passed, the
\* timer cleared.
C7_Witness ==
    \E a \in Attempts :
        /\ Succeeded(att[a])
        /\ att[a].timer = "cleared"
        /\ now >= att[a].deadline

C9_SolveNotTimed ==
    \A a \in Attempts :
        LET s == att[a]
        IN  /\ s.pc = "solving" =>
                  /\ ~ENABLED TimerFires(a)
                  /\ ~s.aborted
                  /\ \A n \in 0..(s.nonce - 1) :
                        ~SatisfiesAt(s.challengeData.challenge,
                                     s.challengeData.difficulty, n)
            /\ s.solved # None =>
                  /\ Expected(s).kind = "return"
                  /\ Expected(s).value = s.solved
                  /\ Len(s.requests) = 2
            /\ (s.fault # None /\ s.fault.stage = "Solving") =>
                  /\ Expected(s).kind = "throw"
                  /\ Expected(s).error = s.fault.cause
            /\ (s.challengeData \in ChallengeBodies /\ s.pc # "solving"
                  /\ Expected(s).kind = "return") => s.solved # None
            /\ s.abortedAt \in NetworkStages \cup {"never"}

\* The deadline passed while the search ran; the search found its nonce
\* all the same, the POST was issued, and the abort hit the POST.
C9_Witness ==
    \E a \in Attempts :
        /\ att[a].lateSolve
        /\ att[a].solved # None
        /\ att[a].solved.nonce # <<"0">>
        /\ att[a].abortedAt = "awaitPost"
        /\ att[a].pc = "done"

(***************************************************************************)
(* C10. Successful attempt: when the GET returned a challenge and the      *)
(* POST a 2xx body that does not carry success: false, the body sent is    *)
(* { email, nonce, solution } with the caller's email and the (nonce,      *)
(* hash) of solveChallenge for the fetched challenge and difficulty, and   *)
(* the result is { success: true, position: <the server's position> }.     *)
(***************************************************************************)
C10_SuccessfulAttempt ==
    \A a \in Attempts :
        LET s == att[a]
        IN  /\ (s.pc = "done" /\ s.answer \in PostBodies
                  /\ s.answer.success # Bool(FALSE)) =>
                  s.result = [success |-> TRUE, position |-> s.answer.position]
            /\ Succeeded(s) =>
                  /\ s.answer \in PostBodies
                  /\ s.answer.success # Bool(FALSE)
                  /\ s.email \in Emails
                  /\ Len(s.requests) = 2
                  /\ s.requests[2].method = "POST"
                  /\ s.requests[2].url = Url
                  /\ Expected(s).kind = "return"
                  /\ JSONParse(s.requests[2].body) =
                        [email |-> s.email,
                         nonce |-> Str(Expected(s).value.nonce),
                         solution |-> Str(Expected(s).value.hash)]

\* A success with the server's position, for a nonce that is not the
\* first candidate.
C10_Witness ==
    \E a \in Attempts :
        /\ Succeeded(att[a])
        /\ att[a].result.position = Num(7)
        /\ att[a].challengeData.difficulty = 2
        /\ JSONParse(att[a].requests[2].body).nonce = Str(<<"2">>)

(***************************************************************************)
(* C11. Fetch failure short-circuits: when the GET is rejected, answers    *)
(* with a status that is not 2xx, or has a body that cannot be used, the   *)
(* attempt goes from Fetching straight to Failed with the message of that  *)
(* failure (which names the status code when the status was the cause);    *)
(* solveChallenge is never called and no POST is issued.                   *)
(***************************************************************************)
C11_FetchShortCircuit ==
    /\ [](\A a \in Attempts :
            LET s == att[a]
            IN  (s.fault # None /\ s.fault.stage = "Fetching") =>
                    /\ Failed(s)
                    /\ s.result.error = FaultText(s.fault.cause)
                    /\ "status" \in DOMAIN s.fault.cause =>
                          \E i \in DOMAIN s.result.error.str :
                              s.result.error.str[i] = ToString(s.fault.cause.status)
                    /\ s.solves = 0
                    /\ s.solved = None
                    /\ Len(s.requests) = 1
                    /\ s.requests[1].method = "GET")
    /\ [][\A a \in Attempts :
            (Stage(att[a].pc) = "Fetching" /\ att'[a].fault # None)
                => att'[a].pc = "done"]_vars

\* The GET was answered with 503 and the attempt failed at once.
C11_Witness ==
    \E a \in Attempts :
        /\ att[a].pc = "done"
        /\ att[a].fault # None
        /\ att[a].fault.stage = "Fetching"
        /\ att[a].fault.cause = HttpFailure("GET", 503, "")
        /\ att[a].solves = 0
        /\ Len(att[a].requests) = 1

(***************************************************************************)
(* C12. Solver exhaustion is fatal for the attempt: when the search of the *)
(* fetched challenge uses up its attempts, the attempt ends as Failed with *)
(* the exhaustion message; no POST is issued, no second GET is issued, and *)
(* solveChallenge is not called a second time.                             *)
(***************************************************************************)
C12_ExhaustionFatal ==
    \A a \in Attempts :
        LET s == att[a]
        IN  /\ s.solves <= 1
            /\ (s.challengeData \in ChallengeBodies /\ s.pc # "solving"
                  /\ Expected(s) = [kind |-> "throw",
                                    error |-> ExhaustedError(DefaultMaxIterations,
                                                             s.challengeData.difficulty)])
                  => /\ Failed(s)
                     /\ s.fault.stage = "Solving"
                     /\ s.result.error =
                           Str(ExhaustedError(DefaultMaxIterations,
                                              s.challengeData.difficulty).message)
                     /\ Len(s.requests) = 1
                     /\ s.requests[1].method = "GET"
                     /\ s.solves = 1
                     /\ s.solved = None

\* The search was exhausted one candidate short of the nonce that would
\* have satisfied the condition, and the attempt ended there.
C12_Witness ==
    \E a \in Attempts :
        /\ att[a].pc = "done"
        /\ att[a].challengeData \in ChallengeBodies
        /\ att[a].challengeData.difficulty > 0
        /\ Expected(att[a]).kind = "throw"
        /\ SatisfiesAt(att[a].challengeData.challenge,
                       att[a].challengeData.difficulty, DefaultMaxIterations + 1)
        /\ att[a].nonce = DefaultMaxIterations
        /\ Len(att[a].requests) = 1

(***************************************************************************)
(* C13. Submit protocol failure: when the POST is answered with a status   *)
(* that is not 2xx, the result is { success: false, error: <message> }     *)
(* whose message names the status code; whether the text of the response   *)
(* is read or cannot be read, the result is that record.                   *)
(***************************************************************************)
C13_SubmitProtocolFailure ==
    /\ [](\A a \in Attempts :
            LET s == att[a]
            IN  /\ s.postStatus # 0 =>
                      /\ ~Ok(s.postStatus)
                      /\ s.pc \in {"awaitPostText", "done"}
                /\ (s.postStatus # 0 /\ s.pc = "done") =>
                      /\ Failed(s)
                      /\ s.result.error =
                            Str(<<"POST ", Url, " responded with HTTP ",
                                  ToString(s.postStatus), ": ", s.fault.cause.text>>)
                      /\ s.fault.cause.status = s.postStatus)
    /\ [][\A a \in Attempts :
            (att[a].pc = "awaitPostText" /\ att'[a] # att[a]) =>
                /\ Failed(att'[a])
                /\ \E i \in DOMAIN att'[a].result.error.str :
                      att'[a].result.error.str[i] = ToString(att[a].postStatus)]_vars

\* The POST was answered with 400 and the text of the response could not
\* be read: the failure names the status and carries no text.
C13_Witness ==
    \E a \in Attempts :
        /\ att[a].pc = "done"
        /\ att[a].postStatus = 400
        /\ att[a].abortedAt = "never"
        /\ att[a].result.error =
              Str(<<"POST ", Url, " responded with HTTP ", "400", ": ", "">>)

(***************************************************************************)
(* C14. Application rejection: when the body of a 2xx POST response says   *)
(* success: false, the result is exactly { success: false, error: e },     *)
(* where e is the error field of the body when it holds a value and the    *)
(* generic message otherwise; no position is reported, whatever the body   *)
(* holds.                                                                  *)
(***************************************************************************)
C14_ApplicationRejection ==
    \A a \in Attempts :
        LET s == att[a]
        IN  (s.pc = "done" /\ s.answer \in PostBodies
               /\ s.answer.success = Bool(FALSE)) =>
                /\ s.result =
                      [success |-> FALSE,
                       error |-> IF s.answer.error \in {Undefined, Null}
                                 THEN Str(<<"Server returned success: false">>)
                                 ELSE s.answer.error]
                /\ "position" \notin DOMAIN s.result

\* The server refused with its own message and a position: the result
\* carries the message and no position.
C14_Witness ==
    \E a \in Attempts :
        /\ att[a].pc = "done"
        /\ att[a].answer \in PostBodies
        /\ att[a].answer.success = Bool(FALSE)
        /\ att[a].answer.position = Num(7)
        /\ att[a].result = [success |-> FALSE, error |-> Str(<<"duplicate email">>)]

(***************************************************************************)
(* C15. Default-to-success: for a 2xx POST response whose body is a record *)
(* with success absent or true, the result says success: true, whatever    *)
(* the position and error fields hold; a record body gives a failure only  *)
(* when it says success: false.                                            *)
(***************************************************************************)
C15_DefaultToSuccess ==
    \A a \in Attempts :
        LET s == att[a]
        IN  (s.pc = "done" /\ s.answer \in PostBodies) =>
                /\ s.answer.success \in {Undefined, Bool(TRUE)} =>
                      /\ s.result.success = TRUE
                      /\ "error" \notin DOMAIN s.result
                /\ s.result.success = FALSE => s.answer.success = Bool(FALSE)

\* A body without the success field but with an error text: a success.
C15_Witness ==
    \E a \in Attempts :
        /\ att[a].pc = "done"
        /\ att[a].answer \in PostBodies
        /\ att[a].answer.success = Undefined
        /\ att[a].answer.error = Str(<<"duplicate email">>)
        /\ att[a].result.success = TRUE

(***************************************************************************)
(* What the claim about the proof flag speaks of.                          *)
(***************************************************************************)
\* A challenge with the other value of pow_required.
OtherFlag(data) == [data EXCEPT !.pow_required = ~@]

\* The invocation, had the server sent the other value of pow_required.
Flipped(s) ==
    IF s.challengeData \in ChallengeBodies
    THEN [s EXCEPT !.challengeData = OtherFlag(@)]
    ELSE s

\* Two invocations differ in nothing but the flag they fetched.
SameButFlag(s, t) == s = t \/ s = Flipped(t)

\* The continuation of the invocation for `outcome` is the same whatever
\* the flag.
FlagBlind(s, outcome) ==
    SameButFlag(Settle(Note(s, outcome), outcome),
                Settle(Note(Flipped(s), outcome), outcome))

(***************************************************************************)
(* C16. The proof flag does not change the flow: with pow_required false   *)
(* solveChallenge is still run on the fetched challenge and difficulty,    *)
(* the POST carries its nonce and digest, and its failure fails the        *)
(* attempt; every step of the attempt does the same as it does for         *)
(* pow_required true with the same challenge and difficulty.               *)
(***************************************************************************)
C16_FlagIgnored ==
    \A a \in Attempts :
        LET s == att[a]
        IN  /\ (s.challengeData \in ChallengeBodies /\ ~s.challengeData.pow_required) =>
                  /\ s.solves = 1
                  /\ (s.pc # "solving" /\ Expected(s).kind = "return") =>
                        /\ s.solved = Expected(s).value
                        /\ Len(s.requests) = 2
                        /\ JSONParse(s.requests[2].body) =
                              [email |-> s.email,
                               nonce |-> Str(Expected(s).value.nonce),
                               solution |-> Str(Expected(s).value.hash)]
                  /\ (s.pc # "solving" /\ Expected(s).kind = "throw") =>
                        /\ Failed(s)
                        /\ s.result.error = Str(Expected(s).error.message)
                        /\ Len(s.requests) = 1
            /\ s.pc = "awaitGetJson" =>
                  \A data \in ChallengeBodies :
                      SameButFlag(Settle(Note(s, Resolved(data)), Resolved(data)),
                                  Settle(Note(s, Resolved(OtherFlag(data))),
                                         Resolved(OtherFlag(data))))
            /\ s.pc = "solving" =>
                  SameButFlag(AfterSolveStep(s), AfterSolveStep(Flipped(s)))
            /\ s.pc = "awaitPost" =>
                  /\ \A err \in TransportFailures : FlagBlind(s, Rejected(err))
                  /\ \A status \in Statuses : FlagBlind(s, Resolved(status))
            /\ s.pc = "awaitPostText" =>
                  /\ \A text \in Texts : FlagBlind(s, Resolved(text))
                  /\ FlagBlind(s, Rejected(JsonSyntaxError))
            /\ s.pc = "awaitPostJson" =>
                  /\ \A body \in PostBodies \cup {Null} : FlagBlind(s, Resolved(body))
                  /\ FlagBlind(s, Rejected(JsonSyntaxError))
            /\ s.timer = "armed" => SameButFlag(OnTimeout(s), OnTimeout(Flipped(s)))

\* No proof was required, the search ran all the same, and the nonce it
\* found, not the first candidate, was submitted and accepted.
C16_Witness ==
    \E a \in Attempts :
        /\ Succeeded(att[a])
        /\ ~att[a].challengeData.pow_required
        /\ att[a].solves = 1
        /\ att[a].nonce > 0
        /\ JSONParse(att[a].requests[2].body).nonce = Str(String(att[a].nonce))

(***************************************************************************)
(* C17. Independent attempts: interleaved invocations have each their own  *)
(* controller, signal and deadline; a step of one invocation (its timer    *)
(* firing, its finishing and clearing its timer, any other step) leaves    *)
(* every other invocation as it was: its pending calls are not aborted,    *)
(* its timer is not disarmed and its result does not change.               *)
(***************************************************************************)
C17_Independent ==
    /\ [](\A a, b \in Attempts :
            (a # b /\ att[a].pc # "idle" /\ att[b].pc # "idle") =>
                /\ att[a].controller # att[b].controller
                /\ \A i \in DOMAIN att[a].requests :
                      /\ att[a].requests[i].signal = att[a].controller
                      /\ att[a].requests[i].signal # att[b].controller
                /\ att[a].deadline = att[a].startedAt + att[a].timeout)
    /\ [][\A a, b \in Attempts :
            (a # b /\ att'[a] # att[a]) => att'[b] = att[b]]_vars

\* The timer of the second invocation fired and ended it while the POST of
\* the first was pending; the first is still pending, its timer armed.
C17_Witness ==
    /\ att[2].pc = "done"
    /\ att[2].abortedAt \in NetworkStages
    /\ att[2].timer = "fired"
    /\ att[1].pc = "awaitPost"
    /\ att[1].startedAt <= att[2].startedAt
    /\ att[1].timer = "armed"
    /\ ~att[1].aborted
    /\ now < att[1].deadline

(***************************************************************************)
(* C18. No retries: an attempt issues exactly one GET and at most one      *)
(* POST, in that order, and calls solveChallenge at most once; a request   *)
(* that failed or was aborted is never issued again.                       *)
(***************************************************************************)
C18_NoRetries ==
    /\ [](\A a \in Attempts :
            LET s == att[a]
            IN  /\ s.solves <= 1
                /\ Len(s.requests) = (IF s.pc = "idle" THEN 0
                                      ELSE IF s.solved = None THEN 1 ELSE 2)
                /\ \A i \in DOMAIN s.requests :
                      s.requests[i].method = (IF i = 1 THEN "GET" ELSE "POST"))
    /\ [][\A a \in Attempts :
            /\ Len(att'[a].requests) >= Len(att[a].requests)
            /\ SubSeq(att'[a].requests, 1, Len(att[a].requests)) = att[a].requests
            /\ att'[a].solves >= att[a].solves
            /\ att[a].fault # None =>
                  /\ att'[a].requests = att[a].requests
                  /\ att'[a].solves = att[a].solves]_vars

\* The POST could not complete: the attempt ended with one GET, one
\* search and one POST behind it.
C18_Witness ==
    \E a \in Attempts :
        /\ att[a].pc = "done"
        /\ att[a].fault # None
        /\ att[a].fault.stage = "Submitting"
        /\ att[a].fault.cause = Error(<<"Network error">>)
        /\ Len(att[a].requests) = 2
        /\ att[a].solves = 1

(***************************************************************************)
(* What the claims about repeated calls of solveChallenge speak of.        *)
(***************************************************************************)
\* solveChallenge as a function of the arguments of the direct call.
Outcome(args) ==
    IF args.maxIterations = Undefined
    THEN solveChallenge(args.challenge, args.difficulty, Undefined)
    ELSE LET enter == SolveEnter(args.difficulty)
         IN  IF enter.kind = "throw" THEN enter
             ELSE SolveFrom(args.challenge, args.difficulty,
                            args.maxIterations.num, enter.nonce)

(***************************************************************************)
(* C19. Determinism: a second call of solveChallenge with the same token,  *)
(* difficulty and bound ends as the first did, with the same (nonce, hash) *)
(* or with the exhausted error again; what a call ends with is fixed by    *)
(* these three arguments, whatever earlier calls left behind.              *)
(***************************************************************************)
C19_Determinism ==
    SolverDone =>
        /\ sPrev # None => sPrev = [pc |-> sPc, out |-> sOut]
        /\ sPc = "returned" => Outcome(sArgs) = [kind |-> "return", value |-> sOut]
        /\ sPc = "thrown" => Outcome(sArgs) = [kind |-> "throw", error |-> sOut]

\* The second of two calls ended with the nonce the first had found, after
\* going through the smaller candidates again.
C19_Witness ==
    /\ sPrev # None
    /\ sPc = "returned"
    /\ sPrev.pc = "returned"
    /\ sOut.nonce = sPrev.out.nonce
    /\ Len(sChecked) >= 3

(***************************************************************************)
(* C20 as stated. Difficulty-0 fast path: for every token and whatever     *)
(* attempt bound is passed, a call with difficulty 0 returns the nonce "0" *)
(* with the digest of the token followed by "0", having checked the first  *)
(* candidate only.                                                         *)
(***************************************************************************)
C20_AsStated ==
    (SolverDone /\ sArgs.difficulty = 0) =>
        /\ sPc = "returned"
        /\ sOut = [nonce |-> <<"0">>, hash |-> sha256(sArgs.challenge \o <<"0">>)]
        /\ sChecked = <<0>>

(***************************************************************************)
(* C20 as amended. Difficulty-0 fast path: for every token and every       *)
(* attempt bound of at least 1 (the default included), a call with         *)
(* difficulty 0 returns the nonce "0" with the digest of the token         *)
(* followed by "0", having checked the first candidate only; with a bound  *)
(* of 0 no candidate is checked and the call fails with the exhausted      *)
(* error.                                                                  *)
(***************************************************************************)
C20_DifficultyZero ==
    (SolverDone /\ sArgs.difficulty = 0) =>
        IF BoundOf(sArgs) >= 1
        THEN /\ sPc = "returned"
             /\ sOut = [nonce |-> <<"0">>, hash |-> sha256(sArgs.challenge \o <<"0">>)]
             /\ sChecked = <<0>>
        ELSE /\ sPc = "thrown"
             /\ sOut = ExhaustedError(BoundOf(sArgs), 0)
             /\ sChecked = <<>>

\* Difficulty 0 and a bound of 1: the first candidate is returned although
\* its digest does not start with a zero.
C20_Witness ==
    /\ sPc = "returned"
    /\ sArgs.difficulty = 0
    /\ sArgs.maxIterations = Num(1)
    /\ sOut.nonce = <<"0">>
    /\ sOut.hash[1] # "0"

(***************************************************************************)
(* C21. Solver termination: a call of solveChallenge, whatever its token,  *)
(* difficulty and bound, ends by returning or by throwing; until then it   *)
(* has checked at most `bound` candidates, and no candidate twice.         *)
(***************************************************************************)
C21_Termination ==
    /\ [](/\ Len(sChecked) <= BoundOf(sArgs)
          /\ \A i, j \in DOMAIN sChecked : sChecked[i] = sChecked[j] => i = j
          /\ SolverDone =>
                (sPc = "thrown" <=> Len(sChecked) = BoundOf(sArgs)
                                     /\ sOut = ExhaustedError(BoundOf(sArgs),
                                                              sArgs.difficulty)))
    /\ (sPc \in {"ready", "loop"} ~> SolverDone)

\* A call that used up a bound of ten or more: it checked as many
\* candidates as the bound allows, and threw.
C21_Witness ==
    /\ sPc = "thrown"
    /\ BoundOf(sArgs) >= 10
    /\ Len(sChecked) = BoundOf(sArgs)
    /\ sNonce = BoundOf(sArgs)

(***************************************************************************)
(* What the claim about the shape of the result speaks of.                 *)
(***************************************************************************)
\* The fields of a SolveResult that hold a value: success always does; of
\* the optional position and error, one that holds undefined reads as an
\* absent one and is left out when the record is serialised.
FieldsOf(record) ==
    {k \in DOMAIN record : k \in {"position", "error"} => record[k] # Undefined}

(***************************************************************************)
(* C22. Result shape: every record solveAndSubmit returns is either a      *)
(* success, success: true without an error and with a position only when   *)
(* the server reported one, or a failure, success: false with an error     *)
(* message and without a position.                                         *)
(***************************************************************************)
C22_ResultShape ==
    \A a \in Attempts :
        LET s == att[a]
        IN  /\ s.result # None <=> s.pc = "done"
            /\ s.pc = "done" =>
                  /\ s.result.success \in BOOLEAN
                  /\ IF s.result.success
                     THEN /\ FieldsOf(s.result) \subseteq {"success", "position"}
                          /\ "position" \in FieldsOf(s.result) =>
                                /\ s.answer \in PostBodies
                                /\ s.answer.position = s.result.position
                                /\ "num" \in DOMAIN s.result.position
                     ELSE /\ FieldsOf(s.result) = {"success", "error"}
                          /\ "str" \in DOMAIN s.result.error
                          /\ Len(s.result.error.str) > 0

\* The server accepted without reporting a position: the success carries
\* no position.
C22_Witness ==
    \E a \in Attempts :
        /\ att[a].pc = "done"
        /\ att[a].answer \in PostBodies
        /\ att[a].answer.success = Bool(TRUE)
        /\ att[a].answer.position = Undefined
        /\ FieldsOf(att[a].result) = {"success"}

====
